---- MODULE Spec2Model ----
(***************************************************************************)
(* Session identity persistence of paperjunkies: the bootstrap in          *)
(* app.py main(), the session-state helpers and sign-out of lib/auth.py,   *)
(* the cipher of lib/persistent_cookie.py and the login and reset pages.   *)
(*                                                                         *)
(* Python strings are sequences of one-character strings; multi-character  *)
(* elements ("<none>", "<fernet>", ...) mark values that are not plain     *)
(* text, so every value stays a sequence of strings.                       *)
(***************************************************************************)
EXTENDS Integers, Sequences, FiniteSets, TLC

\* ---------------------------------------------------------------- bounds
\* Largest wall-clock value (seconds) the clock is advanced to.
MaxTime == 30
\* Number of refresh tokens the identity provider issues in one behaviour,
\* after the one a previous visit may have left in the browser.
MaxTok == 1
\* Longest password / plaintext drawn for the cipher round trip.
MaxStrLen == 2
\* Longest password typed into the reset page's form.
MaxPwLen == 9
\* Number of browser tabs that share the cookies.
MaxTabs == 2

\* -------------------------------------------------------- program constants
\* app.py:133  time.time() - float(last_refresh_failure_ts) < 30
BackoffSeconds == 30
\* pages/reset.py:111  len(new_password) < 8
MinPasswordLength == 8

\* ------------------------------------------------------------ Python values
\* Python None
None == <<"<none>">>
\* An exception leaving a function
Raise == <<"<raise>">>
\* session_state key auth_refresh_failure_ts absent
NoTs == -1

\* Python truthiness of a str | None value
Truthy(s) == s # None /\ s # <<>>

\* str.strip(): drop leading and trailing whitespace
RECURSIVE LStrip(_)
LStrip(s) == IF s # <<>> /\ Head(s) = " " THEN LStrip(Tail(s)) ELSE s

RECURSIVE RStrip(_)
RStrip(s) == IF s # <<>> /\ s[Len(s)] = " " THEN RStrip(SubSeq(s, 1, Len(s) - 1)) ELSE s

Strip(s) == RStrip(LStrip(s))

\* `x or ""` for a str | None
OrEmpty(s) == IF s = None THEN <<>> ELSE s

\* `s or None` for a str
OrNone(s) == IF s = <<>> THEN None ELSE s

\* ------------------------------------------------ lib/persistent_cookie.py
\* Position of the first occurrence of marker m in s, 0 when there is none
RECURSIVE IndexOf(_, _, _)
IndexOf(s, m, i) == IF i > Len(s) THEN 0 ELSE IF s[i] = m THEN i ELSE IndexOf(s, m, i + 1)

\* The Fernet key derived from a password: PBKDF2 over the stripped password
\* with the fixed salt, so the key is a function of the stripped password.
\* Raise stands for the ValueError of an empty password.
_fernet_from_password(password) ==
    LET clean == Strip(OrEmpty(password))
    IN  IF clean = <<>> THEN Raise ELSE clean

\* Fernet.encrypt under key: key and plaintext, followed by the HMAC that
\* authenticates them (a function of both, written as a second copy)
FernetEncrypt(key, data) ==
    <<"<fernet>">> \o key \o <<"<sep>">> \o data \o <<"<mac>">> \o key \o <<"<sep>">> \o data \o <<"<end>">>

\* A token whose HMAC verifies (under the key it carries)
IsFernet(tok) ==
    LET m == IndexOf(tok, "<mac>", 1)
    IN  /\ Len(tok) >= 5 /\ tok[1] = "<fernet>" /\ tok[Len(tok)] = "<end>"
        /\ m > 0
        /\ IndexOf(tok, "<sep>", 1) \in 2..(m - 1)
        /\ SubSeq(tok, 2, m - 1) = SubSeq(tok, m + 1, Len(tok) - 1)

FernetKey(tok) == SubSeq(tok, 2, IndexOf(tok, "<sep>", 1) - 1)

FernetData(tok) == SubSeq(tok, IndexOf(tok, "<sep>", 1) + 1, IndexOf(tok, "<mac>", 1) - 1)

\* Fernet.decrypt under key: Raise stands for InvalidToken
FernetDecrypt(key, tok) == IF IsFernet(tok) /\ FernetKey(tok) = key THEN FernetData(tok) ELSE Raise

encrypt_value(password, value) ==
    LET f == _fernet_from_password(password)
    IN  IF f = Raise THEN Raise ELSE FernetEncrypt(f, OrEmpty(value))

\* decrypt_value returning the plaintext as decrypted, without strip()
decrypt_value_unstripped(password, token) ==
    LET clean == Strip(OrEmpty(token))
        f     == _fernet_from_password(password)
        raw   == FernetDecrypt(f, clean)
    IN  IF clean = <<>> THEN None
        ELSE IF f = Raise THEN None
        ELSE IF raw = Raise THEN None
        ELSE OrNone(raw)

\* decrypt_value without its except clause: the exceptions leave the function
decrypt_value_uncaught(password, token) ==
    LET clean == Strip(OrEmpty(token))
        f     == _fernet_from_password(password)
        raw   == FernetDecrypt(f, clean)
    IN  IF clean = <<>> THEN None
        ELSE IF f = Raise THEN Raise
        ELSE IF raw = Raise THEN Raise
        ELSE OrNone(Strip(raw))

decrypt_value(password, token) ==
    LET clean == Strip(OrEmpty(token))
        f     == _fernet_from_password(password)
        raw   == FernetDecrypt(f, clean)
    IN  IF clean = <<>> THEN None
        ELSE IF f = Raise THEN None
        ELSE IF raw = Raise THEN None
        ELSE OrNone(Strip(raw))

\* JS encodeURIComponent of a cookie value (pages/login.py:41)
encodeURIComponent(v) == <<"<pct>">> \o v

\* urllib.parse.unquote (app.py:106): decodes an encoded value, leaves a raw one
unquote(v) == IF v # <<>> /\ Head(v) = "<pct>" THEN Tail(v) ELSE v

\* ------------------------------------------------------------------ state
VARIABLES
    SUPABASE_USER_ID,     \* env / secrets fallback identity ("" when not configured)
    COOKIES_PASSWORD,     \* st.secrets["COOKIES_PASSWORD"] ("" when not configured)
    streamlit_js_eval,    \* FALSE when the import of streamlit_js_eval failed (None)
    now,                  \* time.time()
    validRT,              \* provider: refresh tokens it currently accepts
    issued,               \* provider: number of refresh tokens issued so far
    docCookie,            \* browser: document.cookie value of paperjunkies_rt
    ctxCookie,            \* st.context.cookies value of paperjunkies_rt seen by the server
    cmCookie,             \* browser: cookie-manager entry sb_refresh_token
    cmReady,              \* the cookie-manager component has delivered the cookies
    session_state,        \* st.session_state of the session
    phase,                \* "boot": next step is main(); "run": main() reached the sidebar and page
    exchangeDone,         \* history: a recovery exchange has succeeded in this session
    cipher,               \* one round trip through lib/persistent_cookie.py
    form,                 \* one submission of the reset page's password form
    tabs,                 \* the executions of main() of browser tabs sharing the cookies
    ev                    \* record of the last handler executed

vars == <<SUPABASE_USER_ID, COOKIES_PASSWORD, streamlit_js_eval, now, validRT, issued,
          docCookie, ctxCookie, cmCookie, cmReady, session_state, phase, exchangeDone, cipher,
          form, tabs, ev>>

\* What the executions of one session leave alone
aside == <<cipher, form, tabs>>

config == <<SUPABASE_USER_ID, COOKIES_PASSWORD, streamlit_js_eval>>

\* The refresh tokens the provider issues, in order of issue
Tokens == << <<"a">>, <<"b">>, <<"c">>, <<"d">> >>

\* The refresh token a previous visit left in the browser's cookies
PrevToken == <<"z">>

\* The recovery link's tokens (pages/reset.py): access_token=a1, refresh_token=r1
RecoveryAccess == <<"A">>

RecoveryRefresh == <<"r">>

\* The user the provider knows, and the bearer token of its sessions
UserId == <<"u">>

AccessToken == <<"x">>

Email == <<"e">>

\* supabase Session as read by _session_to_auth_state: user.id, user.email and tokens
Session(refresh_token) == [user_id |-> UserId, email |-> Email, access_token |-> AccessToken, refresh_token |-> refresh_token]

\* ------------------------------------------------------------ lib/auth.py
AuthState(user_id, access_token, refresh_token, email) ==
    [user_id |-> user_id, access_token |-> access_token, refresh_token |-> refresh_token, email |-> email]

\* Marks "no AuthState": same shape as an AuthState, user_id None
NoAuth == AuthState(None, None, None, None)

_get_session_str(val) == IF val = None THEN None ELSE OrNone(Strip(val))

get_auth_state(ss, environ_user_id) ==
    LET user_id       == _get_session_str(ss.user_id)
        access_token  == _get_session_str(ss.supabase_access_token)
        refresh_token == _get_session_str(ss.supabase_refresh_token)
        email         == _get_session_str(ss.user_email)
        env_user_id   == OrNone(Strip(environ_user_id))
    IN  IF Truthy(user_id) THEN AuthState(user_id, access_token, refresh_token, email)
        ELSE IF Truthy(env_user_id) THEN AuthState(env_user_id, None, None, None)
        ELSE NoAuth

set_auth_state(ss, user_id, access_token, refresh_token, email) ==
    [ss EXCEPT !.user_id = user_id,
               !.supabase_access_token = IF Truthy(access_token) THEN access_token ELSE None,
               !.supabase_refresh_token = IF Truthy(refresh_token) THEN refresh_token ELSE None,
               !.user_email = IF Truthy(email) THEN email ELSE None]

\* clear_auth_state leaving the tokens in session_state
clear_auth_state_keeping_tokens(ss) ==
    [ss EXCEPT !.user_id = None, !.user_email = None]

clear_auth_state(ss) ==
    [ss EXCEPT !.user_id = None, !.supabase_access_token = None,
               !.supabase_refresh_token = None, !.user_email = None]

\* The RuntimeError of a session without user id, in the shape of an AuthState
RaisedAuth == AuthState(Raise, None, None, None)

\* _session_to_auth_state without its check of the user id
_session_to_auth_state_unchecked(session) ==
    AuthState(OrEmpty(session.user_id),
              IF Truthy(session.access_token) THEN session.access_token ELSE None,
              IF Truthy(session.refresh_token) THEN session.refresh_token ELSE None,
              IF Truthy(session.email) THEN session.email ELSE None)

_session_to_auth_state(session) ==
    IF ~Truthy(session.user_id) THEN RaisedAuth
    ELSE AuthState(session.user_id,
                   IF Truthy(session.access_token) THEN session.access_token ELSE None,
                   IF Truthy(session.refresh_token) THEN session.refresh_token ELSE None,
                   IF Truthy(session.email) THEN session.email ELSE None)

\* session_state["recovery_tokens"]; NoTokens stands for the absent key
RecoveryTokens(a, r) == [access_token |-> a, refresh_token |-> r]

NoTokens == RecoveryTokens(None, None)

\* st.session_state of a fresh session
EmptySession ==
    [user_id |-> None, supabase_access_token |-> None, supabase_refresh_token |-> None,
     user_email |-> None, auth_signout_pending |-> FALSE, auth_refresh_failure_ts |-> NoTs,
     auth_warning |-> FALSE, cookies |-> "absent", recovery_tokens |-> NoTokens,
     recovery_session_set |-> FALSE, pending_persistent_rt |-> None,
     persistent_rt_written |-> FALSE]

\* The four keys that hold the AuthState
AuthKeys(ss) == <<ss.user_id, ss.supabase_access_token, ss.supabase_refresh_token, ss.user_email>>

\* ---------------------------------------------------------------- app.py
\* _set_persistent_refresh_cookie (app.py): the value document.cookie holds
\* afterwards, and whether a cookie assignment was issued
app_set_persistent_refresh_cookie(doc, js, refresh_token, cookie_password) ==
    LET ciphertext == encrypt_value(cookie_password, refresh_token)
    IN  IF ~js THEN [doc |-> doc, wrote |-> 0]
        ELSE IF Strip(cookie_password) = <<>> \/ Strip(refresh_token) = <<>> THEN [doc |-> doc, wrote |-> 0]
        ELSE IF ciphertext = Raise THEN [doc |-> doc, wrote |-> 0]
        ELSE [doc |-> ciphertext, wrote |-> 1]

\* _clear_persistent_refresh_cookie (app.py): Max-Age=0 removes the cookie
app_clear_persistent_refresh_cookie(doc, js) ==
    IF ~js THEN [doc |-> doc, wrote |-> 0] ELSE [doc |-> None, wrote |-> 1]

\* The outcomes the provider's refresh_session can have for a presented token:
\* an exception, a response without session, a session with the same refresh
\* token, a session with a rotated one (the presented token is then spent).
RefreshOutcomes(tok, valid, n) ==
    {"error", "nosession"} \cup
    (IF tok \in valid THEN {"same"} \cup (IF n < MaxTok THEN {"rotated"} ELSE {}) ELSE {})

\* The refresh token of the session the provider returns
RefreshedToken(tok, outcome, n) == IF outcome = "rotated" THEN Tokens[n + 1] ELSE tok

\* app.py:101-109: the refresh token of the persistent cookie the request carries
read_persistent_refresh_token(ctx, cookie_password) ==
    IF Truthy(ctx) THEN decrypt_value(cookie_password, unquote(ctx)) ELSE None

\* The restore reading the cookies although a sign-out is pending
resolve_refresh_token_despite_signout(pending, persistent_refresh_token, cm, ready) ==
    IF Truthy(persistent_refresh_token) THEN persistent_refresh_token
    ELSE IF ready THEN cm ELSE None

\* app.py:124-128: the refresh token the restore works with
resolve_refresh_token(pending, persistent_refresh_token, cm, ready) ==
    IF pending THEN None
    ELSE IF Truthy(persistent_refresh_token) THEN persistent_refresh_token
    ELSE IF ready THEN cm ELSE None

\* The backoff window closed one second late: <= instead of <
recently_failed_refresh_inclusive(last_refresh_failure_ts, t) ==
    last_refresh_failure_ts # NoTs /\ t - last_refresh_failure_ts <= BackoffSeconds

\* app.py:131-134
recently_failed_refresh(last_refresh_failure_ts, t) ==
    last_refresh_failure_ts # NoTs /\ t - last_refresh_failure_ts < BackoffSeconds

\* The refresh attempted without a refresh token
should_refresh_without_token(refresh_token, auth, recently_failed) ==
    auth = NoAuth /\ ~recently_failed

\* The refresh attempted although the session is authenticated
should_refresh_when_authenticated(refresh_token, auth, recently_failed) ==
    Truthy(refresh_token) /\ ~recently_failed

\* app.py:136: the condition of the refresh attempt
should_refresh(refresh_token, auth, recently_failed) ==
    Truthy(refresh_token) /\ auth = NoAuth /\ ~recently_failed

\* The test of line 150 inverted
token_rotated_inverted(new_refresh_token, refresh_token) ==
    Truthy(new_refresh_token) /\ new_refresh_token = refresh_token

\* A rotation never noticed
token_rotated_never(new_refresh_token, refresh_token) == FALSE

\* Every refreshed token taken for a rotated one
token_rotated_always(new_refresh_token, refresh_token) == Truthy(new_refresh_token)

\* app.py:150: the provider rotated the refresh token
token_rotated(new_refresh_token, refresh_token) ==
    Truthy(new_refresh_token) /\ new_refresh_token # refresh_token

\* The except branch clearing the stored token
refresh_failed_clearing(ss, doc, cm, writes, t) ==
    [ss |-> [ss EXCEPT !.auth_refresh_failure_ts = t, !.auth_warning = TRUE],
     doc |-> None, cm |-> <<>>, writes |-> writes + 2, rerun |-> FALSE]

\* The except branch recording nothing
refresh_failed_unmarked(ss, doc, cm, writes, t) ==
    [ss |-> ss, doc |-> doc, cm |-> cm, writes |-> writes, rerun |-> FALSE]

\* app.py:156-160: the except branch; it touches session_state only
refresh_failed(ss, doc, cm, writes, t) ==
    [ss |-> [ss EXCEPT !.auth_refresh_failure_ts = t, !.auth_warning = TRUE],
     doc |-> doc, cm |-> cm, writes |-> writes, rerun |-> FALSE]

\* The try block of main(), lines 137-160, entered with refresh_token
RefreshAttempt(ss, doc, cm, ready, js, cookie_password, refresh_token, outcome, n, t) ==
    LET session    == Session(RefreshedToken(refresh_token, outcome, n))
        auth_state == _session_to_auth_state(session)
        ss2        == [set_auth_state(ss, auth_state.user_id, auth_state.access_token,
                                      auth_state.refresh_token, auth_state.email)
                          EXCEPT !.auth_refresh_failure_ts = NoTs]
        w          == app_set_persistent_refresh_cookie(doc, js, auth_state.refresh_token, cookie_password)
    IN  IF outcome = "error"
        THEN refresh_failed(ss, doc, cm, 0, t)
        ELSE IF outcome = "nosession"
        THEN [ss |-> ss, doc |-> doc, cm |-> cm, writes |-> 0, rerun |-> FALSE]
        ELSE IF auth_state = RaisedAuth
        THEN refresh_failed(ss, doc, cm, 0, t)
        ELSE IF ~token_rotated(auth_state.refresh_token, refresh_token)
        THEN [ss |-> ss2, doc |-> doc, cm |-> cm, writes |-> 0, rerun |-> FALSE]
        ELSE IF ready
        THEN [ss |-> ss2, doc |-> w.doc, cm |-> auth_state.refresh_token, writes |-> w.wrote + 1, rerun |-> TRUE]
        \* cookies[...] = ... raises CookiesNotReady, caught by `except Exception`
        ELSE refresh_failed(ss2, w.doc, cm, w.wrote, t)

\* The sign-out branch popping the flag whether the cookie manager is ready or not
signout_pending_cleanup_unconditional(ss, ready) ==
    clear_auth_state([ss EXCEPT !.auth_signout_pending = FALSE])

\* app.py:113-123, what the sign-out branch does to session_state: the flag is
\* popped inside `if cookies.ready()`, the AuthState keys are cleared
signout_pending_cleanup(ss, ready) ==
    clear_auth_state([ss EXCEPT !.auth_signout_pending = ~ready])

\* main() of app.py, lines 74-160: the session bootstrap of one execution
main(ss0, doc, ctx, cm, ready, js, cookie_password, environ_user_id, outcome, n, t) ==
    LET ss1 == [ss0 EXCEPT !.cookies = IF ready THEN "ready" ELSE "notready"]
        persistent_refresh_token == read_persistent_refresh_token(ctx, cookie_password)
        pending == ss1.auth_signout_pending
        clr     == app_clear_persistent_refresh_cookie(doc, js)
        ss2     == IF pending THEN signout_pending_cleanup(ss1, ready) ELSE ss1
        cm2     == IF pending /\ ready THEN <<>> ELSE cm
        doc2    == IF pending THEN clr.doc ELSE doc
        w2      == IF pending THEN clr.wrote + (IF ready THEN 1 ELSE 0) ELSE 0
        refresh_token == resolve_refresh_token(pending, persistent_refresh_token, cm, ready)
        recently == recently_failed_refresh(ss2.auth_refresh_failure_ts, t)
        r == RefreshAttempt(ss2, doc2, cm2, ready, js, cookie_password, refresh_token, outcome, n, t)
    IN  IF should_refresh(refresh_token, get_auth_state(ss2, environ_user_id), recently)
        THEN [ss |-> r.ss, doc |-> r.doc, cm |-> r.cm, writes |-> w2 + r.writes, rerun |-> r.rerun,
              calls |-> 1, token |-> refresh_token, outcome |-> outcome]
        ELSE [ss |-> ss2, doc |-> doc2, cm |-> cm2, writes |-> w2, rerun |-> FALSE,
              calls |-> 0, token |-> refresh_token, outcome |-> "none"]

\* The steps with refresh_session issued as soon as the request's cookie is read
main_steps_eager(ss0, ctx, cm, ready, cookie_password, environ_user_id, t) ==
    IF Truthy(read_persistent_refresh_token(ctx, cookie_password))
    THEN <<"context_cookie_read", "refresh_session", "signout_pending_check", "token_selected", "backoff_check">>
    ELSE <<"context_cookie_read", "signout_pending_check", "token_selected", "backoff_check">>

\* The steps main() of app.py takes up to the provider call, in the order of
\* its statements: the request's persistent cookie is read and decrypted
\* (101-109); the sign-out-pending flag is tested (113) and either the
\* sign-out branch runs (114-124) or the refresh token is chosen, the cookie
\* manager being read when the persistent cookie gave none and the manager is
\* ready (126-128); the backoff marker is tested (131-134); refresh_session
\* is called under the condition of line 136 (139)
main_steps(ss0, ctx, cm, ready, cookie_password, environ_user_id, t) ==
    LET persistent_refresh_token == read_persistent_refresh_token(ctx, cookie_password)
        pending == ss0.auth_signout_pending
        ss2     == IF pending THEN signout_pending_cleanup(ss0, ready) ELSE ss0
        refresh_token == resolve_refresh_token(pending, persistent_refresh_token, cm, ready)
        recently == recently_failed_refresh(ss2.auth_refresh_failure_ts, t)
    IN  <<"context_cookie_read", "signout_pending_check">>
        \o (IF pending THEN <<"signout_cleanup">>
            ELSE IF ~Truthy(persistent_refresh_token) /\ ready THEN <<"cookie_manager_read", "token_selected">>
            ELSE <<"token_selected">>)
        \o <<"backoff_check">>
        \o (IF should_refresh(refresh_token, get_auth_state(ss2, environ_user_id), recently)
            THEN <<"refresh_session">> ELSE <<>>)

\* What the provider does to its tokens on a refresh_session call
ProviderAfterRefresh(valid, tok, outcome, n) ==
    IF outcome = "rotated" THEN (valid \ {tok}) \cup {Tokens[n + 1]} ELSE valid

\* render_auth_sidebar (lib/auth.py), lines 301-332, the "Sign out" button
\* pressed; _clear_persistent_refresh_cookie is the one of lib/auth.py
auth_clear_persistent_refresh_cookie(doc, js) ==
    IF ~js THEN [doc |-> doc, wrote |-> 0] ELSE [doc |-> None, wrote |-> 1]

sign_out_clicked(ss, doc, cm, js) ==
    LET ss1   == [ss EXCEPT !.auth_signout_pending = TRUE]
        ready == ss1.cookies = "ready"
        cm1   == IF ss1.cookies # "absent" /\ ready THEN <<>> ELSE cm
        clr   == auth_clear_persistent_refresh_cookie(doc, js)
    IN  [ss |-> clear_auth_state(ss1), doc |-> clr.doc, cm |-> cm1,
         writes |-> clr.wrote + (IF ss1.cookies # "absent" /\ ready THEN 1 ELSE 0)]

\* get_current_user_id (lib/auth.py): the session's user id, else the env /
\* secrets fallback, else RuntimeError
get_current_user_id(ss, environ_user_id) ==
    IF ss.user_id # None /\ Strip(ss.user_id) # <<>> THEN Strip(ss.user_id)
    ELSE IF Strip(environ_user_id) # <<>> THEN Strip(environ_user_id)
    ELSE Raise

\* require_auth (lib/auth.py), lines 202-273. switch_ok: st.switch_page leaves
\* for the login page (it raises an Exception otherwise and the inline form is
\* shown); submitted: the inline form was submitted with email and password;
\* outcome: what sign_in_with_password then does.
\* result: "return" (the AuthState is returned), "stop" (st.stop() while the
\* cookie manager is not ready), "login" (switch_page), "inline" (the inline
\* form, then st.stop() or st.rerun()), "error" (an exception leaves the page)
require_auth(ss, cm, environ_user_id, switch_ok, submitted, outcome, n) ==
    LET existing == get_auth_state(ss, environ_user_id)
        auth == _session_to_auth_state(Session(Tokens[n + 1]))
        ss2  == set_auth_state(ss, auth.user_id, auth.access_token, auth.refresh_token, auth.email)
        out(res, calls) == [auth |-> NoAuth, ss |-> ss, cm |-> cm, writes |-> 0, result |-> res,
                            calls |-> calls, signed_in |-> FALSE, rerun |-> FALSE]
    IN  IF existing # NoAuth THEN [out("return", 0) EXCEPT !.auth = existing]
        ELSE IF ss.cookies = "notready" THEN out("stop", 0)
        ELSE IF switch_ok THEN out("login", 0)
        ELSE IF ~submitted THEN out("inline", 0)
        ELSE IF outcome # "ok" THEN out("inline", 1)
        ELSE IF auth = RaisedAuth THEN out("error", 1)
        ELSE [auth |-> NoAuth, ss |-> ss2,
              cm |-> IF ss.cookies = "ready" /\ Truthy(auth.refresh_token) THEN auth.refresh_token ELSE cm,
              writes |-> IF ss.cookies = "ready" /\ Truthy(auth.refresh_token) THEN 1 ELSE 0,
              result |-> "inline", calls |-> 1, signed_in |-> TRUE, rerun |-> TRUE]

\* The pages registered in app.py:169-176 that show a user's data
ProtectedPages == {"Timeline", "Dashboard", "Profile"}

\* main() of a protected page up to its first query for the user's data:
\* pages/1_Timeline.py:44-47 and pages/3_Profile.py:20-23 call require_auth and
\* then get_current_user_id; pages/2_Dashboard.py:23 calls get_current_user_id
\* only. result "protected": the page goes on to fetch and show the data.
page_main(page, ss, cm, environ_user_id, switch_ok, submitted, outcome, n) ==
    LET g == require_auth(ss, cm, environ_user_id, switch_ok, submitted, outcome, n)
        user_id == get_current_user_id(ss, environ_user_id)
        ran == [auth |-> NoAuth, ss |-> ss, cm |-> cm, writes |-> 0,
                result |-> IF user_id = Raise THEN "error" ELSE "protected",
                calls |-> 0, signed_in |-> FALSE, rerun |-> FALSE]
    IN  IF page = "Dashboard" THEN ran
        ELSE IF g.result = "return" THEN [ran EXCEPT !.auth = g.auth]
        ELSE g

\* ------------------------------------------------------ pages/login.py
\* _set_persistent_refresh_cookie (pages/login.py): writes the URL-encoded value
login_set_persistent_refresh_cookie(doc, js, ciphertext) ==
    IF ~js THEN [doc |-> doc, wrote |-> 0]
    ELSE [doc |-> encodeURIComponent(ciphertext), wrote |-> 1]

\* The outcomes of the provider's sign_in_with_password
SignInOutcomes(n) == {"error", "nosession"} \cup (IF n < MaxTok THEN {"ok"} ELSE {})

\* The sign-in that keeps what the sign-out and the failed refresh left behind
clear_signin_leftovers_kept(ss) == ss

\* pages/login.py:168-169: a sign-in pops auth_signout_pending and
\* auth_refresh_failure_ts
clear_signin_leftovers(ss) ==
    [ss EXCEPT !.auth_signout_pending = FALSE, !.auth_refresh_failure_ts = NoTs]

\* main() of pages/login.py. submitted: the form was submitted with an email
\* and a password; outcome: what sign_in_with_password then does.
\* nav: "rerun", "timeline" (switch_page), "stay" (the script ends or stops),
\* "error" (an exception leaves the script).
login_main(ss0, doc, cm, js, cookie_password, environ_user_id, submitted, outcome, n) ==
    LET ss1 == [ss0 EXCEPT !.auth_warning = FALSE]
        pending_cookie == ss1.pending_persistent_rt
        w   == login_set_persistent_refresh_cookie(doc, js, pending_cookie)
        auth == _session_to_auth_state(Session(Tokens[n + 1]))
        ss2 == set_auth_state(ss1, auth.user_id, auth.access_token, auth.refresh_token, auth.email)
        ciphertext == encrypt_value(cookie_password, auth.refresh_token)
        ss3 == IF Truthy(auth.refresh_token) /\ Strip(cookie_password) # <<>> /\ ciphertext # Raise
               THEN [ss2 EXCEPT !.pending_persistent_rt = ciphertext, !.persistent_rt_written = FALSE]
               ELSE ss2
        ss4 == clear_signin_leftovers(ss3)
        stay(s) == [ss |-> s, doc |-> doc, cm |-> cm, writes |-> 0, nav |-> "stay", calls |-> 0, signed_in |-> FALSE]
    IN  IF Truthy(pending_cookie) /\ Strip(pending_cookie) # <<>>
        THEN IF ~ss1.persistent_rt_written
             THEN [ss |-> [ss1 EXCEPT !.persistent_rt_written = TRUE], doc |-> w.doc, cm |-> cm,
                   writes |-> w.wrote, nav |-> "rerun", calls |-> 0, signed_in |-> FALSE]
             ELSE [ss |-> [ss1 EXCEPT !.pending_persistent_rt = None, !.persistent_rt_written = FALSE],
                   doc |-> doc, cm |-> cm, writes |-> 0, nav |-> "timeline", calls |-> 0, signed_in |-> FALSE]
        ELSE IF get_auth_state(ss1, environ_user_id) # NoAuth THEN stay(ss1)
        ELSE IF ~submitted THEN stay(ss1)
        ELSE IF outcome # "ok" THEN [stay(ss1) EXCEPT !.calls = 1]
        ELSE IF ss4.cookies = "notready"
        \* cookies[...] = ... raises CookiesNotReady, which nothing catches
        THEN [ss |-> ss4, doc |-> doc, cm |-> cm, writes |-> 0, nav |-> "error", calls |-> 1, signed_in |-> TRUE]
        ELSE [ss |-> ss4, doc |-> doc, cm |-> IF ss4.cookies = "ready" THEN auth.refresh_token ELSE cm,
              writes |-> IF ss4.cookies = "ready" THEN 1 ELSE 0,
              nav |-> IF Truthy(ss4.pending_persistent_rt) THEN "rerun" ELSE "timeline",
              calls |-> 1, signed_in |-> TRUE]

\* ------------------------------------------------------ pages/reset.py
\* exchange_recovery_tokens_for_session (lib/auth.py): set_session, then
\* set_auth_state; raised when the provider call or the conversion raises
exchange_recovery_tokens_for_session(ss, access_token, refresh_token, outcome) ==
    LET auth == _session_to_auth_state(Session(refresh_token))
    IN  IF outcome # "ok" \/ auth = RaisedAuth THEN [ss |-> ss, raised |-> TRUE]
        ELSE [ss |-> set_auth_state(ss, auth.user_id, auth.access_token, auth.refresh_token, auth.email),
              raised |-> FALSE]

\* The exchange repeated whenever the tokens are at hand
should_exchange_unguarded(access, refresh, recovery_session_set) ==
    Truthy(access) /\ Truthy(refresh)

\* pages/reset.py:82: the condition of the recovery exchange
should_exchange(access, refresh, recovery_session_set) ==
    Truthy(access) /\ Truthy(refresh) /\ ~recovery_session_set

\* main() of pages/reset.py, lines 53-96. query: the tokens in the query
\* parameters; hash: the tokens window.location.hash carries; outcome: what
\* the provider's set_session does.
reset_main(ss0, js, environ_user_id, query, hash, outcome) ==
    LET auth0   == get_auth_state(ss0, environ_user_id)
        qp_ok   == Truthy(query.access_token) /\ Truthy(query.refresh_token)
        read_hash == ~qp_ok /\ js /\ ss0.recovery_tokens = NoTokens
        cache   == read_hash /\ Truthy(hash.access_token) /\ Truthy(hash.refresh_token)
        tokens  == ss0.recovery_tokens
        access  == IF qp_ok THEN query.access_token
                   ELSE IF tokens # NoTokens THEN OrNone(Strip(OrEmpty(tokens.access_token))) ELSE query.access_token
        refresh == IF qp_ok THEN query.refresh_token
                   ELSE IF tokens # NoTokens THEN OrNone(Strip(OrEmpty(tokens.refresh_token))) ELSE query.refresh_token
        do_exchange == should_exchange(access, refresh, ss0.recovery_session_set)
        x == exchange_recovery_tokens_for_session(ss0, access, refresh, outcome)
    IN  IF auth0 # NoAuth THEN [ss |-> ss0, exchanges |-> 0, nav |-> "stay", ok |-> FALSE]
        ELSE IF cache
        THEN [ss |-> [ss0 EXCEPT !.recovery_tokens = RecoveryTokens(hash.access_token, hash.refresh_token)],
              exchanges |-> 0, nav |-> "rerun", ok |-> FALSE]
        ELSE IF ~do_exchange THEN [ss |-> ss0, exchanges |-> 0, nav |-> "stay", ok |-> FALSE]
        ELSE IF x.raised THEN [ss |-> ss0, exchanges |-> 1, nav |-> "stay", ok |-> FALSE]
        ELSE [ss |-> [x.ss EXCEPT !.recovery_session_set = TRUE], exchanges |-> 1, nav |-> "rerun", ok |-> TRUE]

\* A required keyword argument the caller left out
Missing == <<"<missing>">>

\* update_password (lib/auth.py), lines 192-199, called with the given keyword
\* arguments; leaving one out raises TypeError before the body runs.
\* outcome: what the provider does, "ok", "session_error" (set_session
\* raises) or "update_error" (update_user raises)
update_password(access_token, refresh_token, new_password, outcome) ==
    LET out(raised, s, u) == [raised |-> raised, set_session |-> s, update_user |-> u]
    IN  IF Missing \in {access_token, refresh_token, new_password} THEN out("TypeError", 0, 0)
        ELSE IF ~Truthy(new_password) THEN out("ValueError", 0, 0)
        ELSE IF outcome = "session_error" THEN out("provider", 1, 0)
        ELSE IF outcome = "update_error" THEN out("provider", 1, 1)
        ELSE out("none", 1, 1)

\* pages/reset.py:105-113 without the check of the length
reset_validate_any_length(new_password, confirm) ==
    IF ~Truthy(new_password) THEN "enter"
    ELSE IF new_password # confirm THEN "mismatch"
    ELSE "ok"

\* pages/reset.py:105-113: what the form's checks make of a submission
reset_validate(new_password, confirm) ==
    IF ~Truthy(new_password) THEN "enter"
    ELSE IF new_password # confirm THEN "mismatch"
    ELSE IF Len(new_password) < MinPasswordLength THEN "short"
    ELSE "ok"

\* pages/reset.py:104-123: the password form submitted by a session whose
\* AuthState is auth. shown: the message the page shows
reset_submit(auth, new_password, confirm, outcome) ==
    LET v    == reset_validate(new_password, confirm)
        args == <<OrEmpty(auth.access_token), Missing, new_password>>
        u    == update_password(args[1], args[2], args[3], outcome)
    IN  IF v # "ok"
        THEN [shown |-> v, invoked |-> FALSE, args |-> <<>>, raised |-> "none", set_session |-> 0, update_user |-> 0]
        ELSE [shown |-> IF u.raised # "none" THEN "could_not_update" ELSE "updated",
              invoked |-> TRUE, args |-> args, raised |-> u.raised,
              set_session |-> u.set_session, update_user |-> u.update_user]

\* ------------------------------------------------------- history of a step
\* What a handler started from: the sign-out-pending flag, the four AuthState
\* keys, the backoff marker, the two cookies, the provider's valid tokens,
\* whether a recovery exchange had succeeded, and time.time()
Pre ==
    [pending |-> session_state.auth_signout_pending, keys |-> AuthKeys(session_state),
     ts |-> session_state.auth_refresh_failure_ts, doc |-> docCookie, cm |-> cmCookie,
     valid |-> validRT, done |-> exchangeDone, now |-> now]

NoPre ==
    [pending |-> FALSE, keys |-> AuthKeys(EmptySession), ts |-> NoTs, doc |-> None, cm |-> None,
     valid |-> {}, done |-> FALSE, now |-> 0]

\* ev after a step of the environment
EnvStep(name) ==
    [op |-> name, pre |-> NoPre, calls |-> 0, token |-> None, outcome |-> "none",
     writes |-> 0, rerun |-> FALSE, exchanges |-> 0, page |-> "none", result |-> "none"]

\* time.time() after a handler that leaves session_state ss: with no marker
\* recorded nothing reads the clock against an earlier value, and it is counted
\* from 0 again
Clock(ss, t) == IF ss.auth_refresh_failure_ts = NoTs THEN 0 ELSE t

\* ------------------------------------------------------------------- Init
\* No password form submitted
FormIdle ==
    [pc |-> "idle", auth |-> NoAuth, new_password |-> <<>>, confirm |-> <<>>, outcome |-> "none",
     shown |-> "none", invoked |-> FALSE, args |-> <<>>, raised |-> "none", set_session |-> 0, update_user |-> 0]

\* The browser tabs whose executions of main() are followed one step at a time
TabIds == 1..MaxTabs

\* No tab followed
TabsIdle == <<>>

\* No round trip under way
CipherIdle == [pc |-> "idle", password |-> <<>>, value |-> <<>>, token |-> <<>>, out |-> None]

\* The application in a fresh session of a deployment without fallback
\* identity, with the cookie password set and streamlit_js_eval imported
AppFresh ==
    /\ SUPABASE_USER_ID = <<>>
    /\ COOKIES_PASSWORD = <<"p">>
    /\ streamlit_js_eval = TRUE
    /\ now = 0
    /\ issued = 0
    /\ validRT = {}
    /\ docCookie = None
    /\ ctxCookie = None
    /\ cmCookie = None
    /\ cmReady = FALSE
    /\ session_state = EmptySession
    /\ phase = "boot"
    /\ exchangeDone = FALSE
    /\ ev = EnvStep("init")

\* The paperjunkies_rt cookie a sign-in of a previous visit left behind
\* (pages/login.py:159-162 and 108): none without password or streamlit_js_eval
PrevDoc(js, cookie_password) ==
    IF js /\ Strip(cookie_password) # <<>>
    THEN encodeURIComponent(encrypt_value(cookie_password, PrevToken))
    ELSE None

Init ==
    /\ SUPABASE_USER_ID \in {<<>>, <<"d">>}
    /\ COOKIES_PASSWORD \in {<<>>, <<"p">>}
    /\ streamlit_js_eval \in BOOLEAN
    /\ now = 0
    /\ issued = 0
    /\ \E prev \in {"none", "valid", "revoked"} :
        /\ validRT = IF prev = "valid" THEN {PrevToken} ELSE {}
        /\ docCookie = IF prev = "none" THEN None ELSE PrevDoc(streamlit_js_eval, COOKIES_PASSWORD)
        /\ cmCookie = IF prev = "none" THEN None ELSE PrevToken
    /\ ctxCookie = docCookie
    /\ cmReady = FALSE
    /\ session_state = EmptySession
    /\ phase = "boot"
    /\ exchangeDone = FALSE
    /\ cipher = CipherIdle
    /\ ev = EnvStep("init")
    /\ form = FormIdle
    /\ tabs = TabsIdle

\* ---------------------------------------------------------------- actions
\* What refresh_session can do in the execution about to run: its outcomes
\* for the token main() presents, if it presents one. failed: main() as it
\* runs when the call raises
BootstrapOutcomes(failed) ==
    IF failed.calls = 1 THEN RefreshOutcomes(failed.token, validRT, issued) ELSE {"error"}

\* The login form: left alone, or submitted with one of the outcomes of
\* sign_in_with_password
FormInputs(n) ==
    {[submitted |-> FALSE, outcome |-> "error"]}
    \cup {[submitted |-> TRUE, outcome |-> o] : o \in SignInOutcomes(n)}

\* The reset page's URL: the recovery tokens in the query parameters, in the
\* fragment, or in neither; and what the provider's set_session does when called
ResetInputs ==
    LET link == RecoveryTokens(RecoveryAccess, RecoveryRefresh)
    IN  {[query |-> link, hash |-> NoTokens, outcome |-> o] : o \in {"ok", "error"}}
        \cup {[query |-> NoTokens, hash |-> NoTokens, outcome |-> o] : o \in {"ok", "error"}}
        \cup {[query |-> NoTokens, hash |-> link, outcome |-> "ok"]}

\* What happens around require_auth's sign-in surface: switch_page leaves for
\* the login page, or it raises and the inline form is shown, left alone or
\* submitted with one of the outcomes of sign_in_with_password
GateInputs(n) ==
    {[switch_ok |-> TRUE, submitted |-> FALSE, outcome |-> "error"],
     [switch_ok |-> FALSE, submitted |-> FALSE, outcome |-> "error"]}
    \cup {[switch_ok |-> FALSE, submitted |-> TRUE, outcome |-> o] : o \in SignInOutcomes(n)}

\* One execution of main() up to line 160
Bootstrap ==
    /\ phase = "boot"
    /\ LET failed == main(session_state, docCookie, ctxCookie, cmCookie, cmReady, streamlit_js_eval,
                          COOKIES_PASSWORD, SUPABASE_USER_ID, "error", issued, now)
       IN
       \E outcome \in BootstrapOutcomes(failed) :
        LET m == IF outcome = "error" THEN failed
                 ELSE main(session_state, docCookie, ctxCookie, cmCookie, cmReady, streamlit_js_eval,
                           COOKIES_PASSWORD, SUPABASE_USER_ID, outcome, issued, now)
        IN  /\ session_state' = m.ss
            /\ docCookie' = m.doc
            /\ cmCookie' = m.cm
            /\ validRT' = IF m.calls = 1 THEN ProviderAfterRefresh(validRT, m.token, outcome, issued) ELSE validRT
            /\ issued' = IF m.calls = 1 /\ outcome = "rotated" THEN issued + 1 ELSE issued
            /\ phase' = IF m.rerun THEN "boot" ELSE "run"
            /\ ev' = [op |-> "Bootstrap", pre |-> Pre, calls |-> m.calls, token |-> m.token,
                      outcome |-> m.outcome, writes |-> m.writes, rerun |-> m.rerun, exchanges |-> 0,
                      page |-> "none", result |-> "none"]
            /\ now' = Clock(m.ss, now)
    /\ UNCHANGED <<config, aside, ctxCookie, cmReady, exchangeDone>>

\* The clock advances between executions, to just before and to the end of
\* the backoff window. It is only ever read against the backoff marker
\* (app.py:133), so it advances while a marker is recorded
Tick ==
    /\ phase = "boot"
    /\ session_state.auth_refresh_failure_ts # NoTs
    /\ \E t \in {BackoffSeconds - 1, BackoffSeconds} :
        /\ now < t
        /\ t <= MaxTime
        /\ now' = t
    /\ ev' = EnvStep("Tick")
    /\ UNCHANGED <<config, aside, validRT, issued, docCookie, ctxCookie, cmCookie, cmReady, session_state, phase, exchangeDone>>

\* The cookie-manager component delivers the browser's cookies
CookiesBecomeReady ==
    /\ phase = "boot"
    /\ ~cmReady
    /\ cmReady' = TRUE
    /\ ev' = EnvStep("CookiesBecomeReady")
    /\ UNCHANGED <<config, aside, now, validRT, issued, docCookie, ctxCookie, cmCookie, session_state, phase, exchangeDone>>

\* The browser opens a new connection: fresh st.session_state, the request
\* carries the cookies the browser holds, the cookie manager starts not ready;
\* no marker survives, so the clock is counted from the start of the session
NewSession ==
    /\ phase = "boot"
    /\ session_state' = EmptySession
    /\ ctxCookie' = docCookie
    /\ cmReady' = FALSE
    /\ exchangeDone' = FALSE
    /\ now' = 0
    /\ ev' = EnvStep("NewSession")
    /\ UNCHANGED <<config, aside, validRT, issued, docCookie, cmCookie, phase>>

\* What an execution of a protected page (Timeline, Dashboard or Profile) can
\* do. logged: the page and the outcome of the inline form's sign-in are kept
PageRuns(logged) ==
    {[r |-> page_main(x[1], session_state, cmCookie, SUPABASE_USER_ID, x[2].switch_ok,
                      x[2].submitted, x[2].outcome, issued),
      page |-> IF logged THEN x[1] ELSE "none",
      outcome |-> IF logged /\ x[2].submitted /\ ~x[2].switch_ok THEN x[2].outcome ELSE "none"]
       : x \in ProtectedPages \X GateInputs(issued)}

\* One execution of a protected page. logged: ev keeps the page, what became
\* of it and the sign-in of its inline form; otherwise ev keeps the name of
\* the step only
PageRun(logged) ==
    /\ phase = "run"
    /\ \E p \in PageRuns(logged) :
        LET r == p.r
        IN  /\ session_state' = r.ss
            /\ cmCookie' = r.cm
            /\ validRT' = IF r.signed_in THEN validRT \cup {Tokens[issued + 1]} ELSE validRT
            /\ issued' = IF r.signed_in THEN issued + 1 ELSE issued
            /\ ev' = IF logged
                     THEN [EnvStep("PageRender") EXCEPT !.pre = Pre, !.calls = r.calls, !.writes = r.writes,
                              !.rerun = r.rerun, !.page = p.page, !.result = r.result,
                              !.outcome = IF r.calls = 1 THEN p.outcome ELSE "none"]
                     ELSE EnvStep("PageRender")
    /\ phase' = "boot"
    /\ UNCHANGED <<config, aside, now, docCookie, ctxCookie, cmReady, exchangeDone>>

PageRender == PageRun(FALSE)

PageRenderLogged == PageRun(TRUE)

\* The request context picks up the cookies the browser now holds
ContextSync ==
    /\ phase = "boot"
    /\ ctxCookie # docCookie
    /\ ctxCookie' = docCookie
    /\ ev' = EnvStep("ContextSync")
    /\ UNCHANGED <<config, aside, now, validRT, issued, docCookie, cmCookie, cmReady, session_state, phase, exchangeDone>>

\* The user presses "Sign out" in the sidebar (render_auth_sidebar); the
\* remote sign_out is best effort: it revokes the refresh tokens or fails
SignOut ==
    /\ phase = "run"
    /\ get_auth_state(session_state, SUPABASE_USER_ID) # NoAuth
    /\ \E revoked \in BOOLEAN :
        LET r == sign_out_clicked(session_state, docCookie, cmCookie, streamlit_js_eval)
        IN  /\ session_state' = r.ss
            /\ docCookie' = r.doc
            /\ cmCookie' = r.cm
            /\ validRT' = IF revoked THEN {} ELSE validRT
            /\ ev' = [op |-> "SignOut", pre |-> Pre, calls |-> 0, token |-> None, outcome |-> "none",
                      writes |-> r.writes, rerun |-> TRUE, exchanges |-> 0, page |-> "none", result |-> "none"]
    /\ phase' = "boot"
    /\ UNCHANGED <<config, aside, now, issued, ctxCookie, cmReady, exchangeDone>>

\* One execution of the login page
LoginPage ==
    /\ phase = "run"
    /\ \E in \in FormInputs(issued) :
        LET submitted == in.submitted
            outcome == in.outcome
            r == login_main(session_state, docCookie, cmCookie, streamlit_js_eval, COOKIES_PASSWORD,
                            SUPABASE_USER_ID, submitted, outcome, issued)
        IN  /\ session_state' = r.ss
            /\ docCookie' = r.doc
            /\ cmCookie' = r.cm
            /\ validRT' = IF r.signed_in THEN validRT \cup {Tokens[issued + 1]} ELSE validRT
            /\ issued' = IF r.signed_in THEN issued + 1 ELSE issued
            /\ ev' = [op |-> "LoginPage", pre |-> Pre, calls |-> r.calls, token |-> None,
                      outcome |-> IF r.calls = 1 THEN outcome ELSE "none",
                      writes |-> r.writes, rerun |-> r.nav = "rerun", exchanges |-> 0,
                      page |-> "login", result |-> r.nav]
            /\ now' = Clock(r.ss, now)
    /\ phase' = "boot"
    /\ UNCHANGED <<config, aside, ctxCookie, cmReady, exchangeDone>>

\* One execution of the reset page, up to the password form
ResetPage ==
    /\ phase = "run"
    /\ \E in \in ResetInputs :
        LET outcome == in.outcome
            r == reset_main(session_state, streamlit_js_eval, SUPABASE_USER_ID, in.query, in.hash, outcome)
        IN  /\ session_state' = r.ss
            /\ exchangeDone' = (exchangeDone \/ r.ok)
            /\ ev' = [op |-> "ResetPage", pre |-> Pre, calls |-> 0, token |-> None,
                      outcome |-> IF r.exchanges = 1 THEN outcome ELSE "none",
                      writes |-> 0, rerun |-> r.nav = "rerun", exchanges |-> r.exchanges,
                      page |-> "reset", result |-> r.nav]
    /\ phase' = "boot"
    /\ UNCHANGED <<config, aside, now, validRT, issued, docCookie, ctxCookie, cmCookie, cmReady>>

Next ==
    \/ Bootstrap
    \/ Tick
    \/ CookiesBecomeReady
    \/ NewSession
    \/ ContextSync
    \/ PageRender
    \/ SignOut
    \/ LoginPage
    \/ ResetPage

Spec == Init /\ [][Next]_vars

\* The executions of sessions that stay on the login page and the protected
\* pages, with what each page execution did kept in ev
NextGate ==
    \/ Bootstrap
    \/ CookiesBecomeReady
    \/ NewSession
    \/ PageRenderLogged
    \/ SignOut
    \/ LoginPage

SpecGate == Init /\ [][NextGate]_vars

\* ------------------------------------------------- the cipher on its own
\* The characters passwords and plaintexts are drawn from
Alphabet == {"a", "b", " "}

StringsUpTo(n) == UNION {[1..k -> Alphabet] : k \in 0..n}

\* A round trip starts from any non-empty password and any plaintext; the
\* application itself stays in a fresh session
InitCipher ==
    /\ SUPABASE_USER_ID = <<>>
    /\ COOKIES_PASSWORD = <<"p">>
    /\ streamlit_js_eval = TRUE
    /\ now = 0
    /\ issued = 0
    /\ validRT = {}
    /\ docCookie = None
    /\ ctxCookie = None
    /\ cmCookie = None
    /\ cmReady = FALSE
    /\ session_state = EmptySession
    /\ phase = "boot"
    /\ exchangeDone = FALSE
    /\ ev = EnvStep("init")
    /\ form = FormIdle
    /\ tabs = TabsIdle
    /\ \E password \in StringsUpTo(MaxStrLen) \ {<<>>}, value \in StringsUpTo(MaxStrLen) :
        cipher = [pc |-> "start", password |-> password, value |-> value, token |-> <<>>, out |-> None]

\* encrypt_value(password=P, value=T)
CipherEncrypt ==
    /\ cipher.pc = "start"
    /\ LET token == encrypt_value(cipher.password, cipher.value)
       IN  cipher' = [cipher EXCEPT !.pc = IF token = Raise THEN "raised" ELSE "encrypted",
                                    !.token = token]
    /\ UNCHANGED <<config, now, validRT, issued, docCookie, ctxCookie, cmCookie, cmReady,
                   session_state, phase, exchangeDone, ev, form, tabs>>

\* decrypt_value(password=P, token=...) of what encrypt_value returned
CipherDecrypt ==
    /\ cipher.pc = "encrypted"
    /\ cipher' = [cipher EXCEPT !.pc = "done", !.out = decrypt_value(cipher.password, cipher.token)]
    /\ UNCHANGED <<config, now, validRT, issued, docCookie, ctxCookie, cmCookie, cmReady,
                   session_state, phase, exchangeDone, ev, form, tabs>>

NextCipher ==
    \/ CipherEncrypt
    \/ CipherDecrypt

SpecCipher == InitCipher /\ [][NextCipher]_vars

\* ------------------------------------------------- the new-password form
\* The passwords typed into the form: every length up to MaxPwLen
Passwords == {[k \in 1..n |-> "a"] : n \in 0..MaxPwLen}

\* The AuthState of the session that sees the form: signed in, in a recovery
\* session, or the fallback identity without tokens
FormAuthStates ==
    {AuthState(UserId, AccessToken, Tokens[1], Email),
     AuthState(UserId, RecoveryAccess, RecoveryRefresh, Email),
     AuthState(<<"d">>, None, None, None)}

\* The form is shown to a session with an AuthState; any password and
\* confirmation are typed, and the provider answers in any of its ways
InitReset ==
    /\ AppFresh
    /\ cipher = CipherIdle
    /\ tabs = TabsIdle
    /\ \E auth \in FormAuthStates, new_password \in Passwords, confirm \in Passwords,
          outcome \in {"ok", "session_error", "update_error"} :
        form = [FormIdle EXCEPT !.pc = "form", !.auth = auth, !.new_password = new_password,
                                !.confirm = confirm, !.outcome = outcome]

\* "Update password" is pressed
ResetSubmit ==
    /\ form.pc = "form"
    /\ LET r == reset_submit(form.auth, form.new_password, form.confirm, form.outcome)
       IN  form' = [form EXCEPT !.pc = "submitted", !.shown = r.shown, !.invoked = r.invoked,
                                !.args = r.args, !.raised = r.raised,
                                !.set_session = r.set_session, !.update_user = r.update_user]
    /\ UNCHANGED <<config, now, validRT, issued, docCookie, ctxCookie, cmCookie, cmReady,
                   session_state, phase, exchangeDone, ev, cipher, tabs>>

\* update_password called with the session's tokens and the typed password
UpdatePasswordCall ==
    /\ form.pc = "form"
    /\ LET args == <<OrEmpty(form.auth.access_token), OrEmpty(form.auth.refresh_token), form.new_password>>
           u == update_password(args[1], args[2], args[3], form.outcome)
       IN  form' = [form EXCEPT !.pc = "called", !.invoked = TRUE, !.args = args, !.raised = u.raised,
                                !.set_session = u.set_session, !.update_user = u.update_user]
    /\ UNCHANGED <<config, now, validRT, issued, docCookie, ctxCookie, cmCookie, cmReady,
                   session_state, phase, exchangeDone, ev, cipher, tabs>>

NextReset ==
    \/ ResetSubmit
    \/ UpdatePasswordCall

SpecReset == InitReset /\ [][NextReset]_vars

\* ------------------------------------------------ tabs sharing the cookies
\* A tab whose execution of main() is about to start: a fresh session, the
\* request carrying the cookie the browser holds
TabStart(ready) ==
    [pc |-> "start", ss |-> EmptySession, ready |-> ready, ctx |-> docCookie,
     token |-> None, outcome |-> "none", n |-> 0]

\* The tabs of one browser open the application: a previous visit left a
\* refresh token the provider accepts in the cookies; no fallback identity
InitTabs ==
    /\ SUPABASE_USER_ID = <<>>
    /\ COOKIES_PASSWORD \in {<<>>, <<"p">>}
    /\ streamlit_js_eval \in BOOLEAN
    /\ now = 0
    /\ issued = 0
    /\ validRT = {PrevToken}
    /\ docCookie = PrevDoc(streamlit_js_eval, COOKIES_PASSWORD)
    /\ cmCookie = PrevToken
    /\ ctxCookie = docCookie
    /\ cmReady = FALSE
    /\ session_state = EmptySession
    /\ phase = "boot"
    /\ exchangeDone = FALSE
    /\ ev = EnvStep("init")
    /\ cipher = CipherIdle
    /\ form = FormIdle
    /\ \E ready \in [TabIds -> BOOLEAN] : tabs = [i \in TabIds |-> TabStart(ready[i])]

\* main() of tab i, lines 74-136: it reads the cookies and decides whether to
\* refresh; without a refresh its execution is over
TabRead(i) ==
    LET t == tabs[i]
        m == main(t.ss, docCookie, t.ctx, cmCookie, t.ready, streamlit_js_eval, COOKIES_PASSWORD,
                  SUPABASE_USER_ID, "error", issued, now)
    IN  /\ t.pc = "start"
        /\ tabs' = [tabs EXCEPT ![i] =
                       IF m.calls = 1
                       THEN [t EXCEPT !.pc = "read", !.token = m.token,
                                      !.ss = [t.ss EXCEPT !.cookies = IF t.ready THEN "ready" ELSE "notready"]]
                       ELSE [t EXCEPT !.pc = "done", !.ss = m.ss]]
        /\ UNCHANGED <<config, now, validRT, issued, docCookie, ctxCookie, cmCookie, cmReady,
                       session_state, phase, exchangeDone, ev, cipher, form>>

\* refresh_session(refresh_token) of tab i reaches a provider whose refresh
\* tokens are single-use: a token it accepts is exchanged for a new one and
\* accepted no longer, any other is refused; the call may also fail
TabCall(i) ==
    LET t == tabs[i]
    IN  /\ t.pc = "read"
        /\ \E outcome \in (IF t.token \in validRT THEN {"rotated", "error"} ELSE {"error"}) :
            /\ tabs' = [tabs EXCEPT ![i] = [t EXCEPT !.pc = "responded", !.outcome = outcome, !.n = issued]]
            /\ validRT' = ProviderAfterRefresh(validRT, t.token, outcome, issued)
            /\ issued' = IF outcome = "rotated" THEN issued + 1 ELSE issued
        /\ UNCHANGED <<config, now, docCookie, ctxCookie, cmCookie, cmReady,
                       session_state, phase, exchangeDone, ev, cipher, form>>

\* main() of tab i, lines 140-160: the response is handled and the cookies
\* are written as the browser holds them by now
TabFinish(i) ==
    LET t == tabs[i]
        r == RefreshAttempt(t.ss, docCookie, cmCookie, t.ready, streamlit_js_eval, COOKIES_PASSWORD,
                            t.token, t.outcome, t.n, now)
    IN  /\ t.pc = "responded"
        /\ tabs' = [tabs EXCEPT ![i] = [t EXCEPT !.pc = "done", !.ss = r.ss]]
        /\ docCookie' = r.doc
        /\ cmCookie' = r.cm
        /\ UNCHANGED <<config, now, validRT, issued, ctxCookie, cmReady,
                       session_state, phase, exchangeDone, ev, cipher, form>>

NextTabs ==
    \E i \in TabIds :
        \/ TabRead(i)
        \/ TabCall(i)
        \/ TabFinish(i)

SpecTabs == InitTabs /\ [][NextTabs]_vars

\* ------------------------------------------- decrypt_value on foreign input
\* What may be presented to decrypt_value in place of the token tok that
\* encrypt_value returned: tok itself, tok with surrounding whitespace,
\* nothing, text that is no token, tok truncated, tok with its payload altered
Presented(tok) ==
    LET m == IndexOf(tok, "<mac>", 1)
    IN  {tok, <<" ">> \o tok \o <<" ">>, <<>>, <<" ">>, <<"a", "b">>,
         SubSeq(tok, 1, Len(tok) - 1),
         SubSeq(tok, 1, m - 1) \o <<"b">> \o SubSeq(tok, m, Len(tok))}

\* encrypt_value under a usable password P, decrypt_value under any P'
InitFailClosed ==
    /\ SUPABASE_USER_ID = <<>>
    /\ COOKIES_PASSWORD = <<"p">>
    /\ streamlit_js_eval = TRUE
    /\ now = 0
    /\ issued = 0
    /\ validRT = {}
    /\ docCookie = None
    /\ ctxCookie = None
    /\ cmCookie = None
    /\ cmReady = FALSE
    /\ session_state = EmptySession
    /\ phase = "boot"
    /\ exchangeDone = FALSE
    /\ ev = EnvStep("init")
    /\ form = FormIdle
    /\ tabs = TabsIdle
    /\ \E password \in {q \in StringsUpTo(MaxStrLen) : Strip(q) # <<>>},
          other \in StringsUpTo(MaxStrLen), value \in StringsUpTo(1) :
        cipher = [pc |-> "start", password |-> password, value |-> value, token |-> <<>>,
                  out |-> None, other |-> other]

\* The token reaches decrypt_value as one of Presented
CipherPresent ==
    /\ cipher.pc = "encrypted"
    /\ \E tok \in Presented(cipher.token) :
        cipher' = [cipher EXCEPT !.pc = "presented", !.token = tok]
    /\ UNCHANGED <<config, now, validRT, issued, docCookie, ctxCookie, cmCookie, cmReady,
                   session_state, phase, exchangeDone, ev, form, tabs>>

\* decrypt_value(password=P', token=...)
CipherDecryptOther ==
    /\ cipher.pc = "presented"
    /\ cipher' = [cipher EXCEPT !.pc = "done", !.out = decrypt_value(cipher.other, cipher.token)]
    /\ UNCHANGED <<config, now, validRT, issued, docCookie, ctxCookie, cmCookie, cmReady,
                   session_state, phase, exchangeDone, ev, form, tabs>>

NextFailClosed ==
    \/ CipherEncrypt
    \/ CipherPresent
    \/ CipherDecryptOther

SpecFailClosed == InitFailClosed /\ [][NextFailClosed]_vars

\* ================================================================= claims
\* No env / secrets fallback identity is configured
NoFallback == Strip(SUPABASE_USER_ID) = <<>>

\* The refresh token the browser's cookies yield to a restore that finds the
\* cookie manager ready: the persistent cookie if it decrypts, else the entry
StoredToken(doc, cm) ==
    resolve_refresh_token(FALSE, read_persistent_refresh_token(doc, COOKIES_PASSWORD), cm, TRUE)

\* Session State holds an AuthState
Holds(keys) == Truthy(keys[1])

\* C1: a Bootstrap that starts with the sign-out-pending flag set and no
\* fallback identity issues no refresh_session call and ends with
\* get_auth_state() absent, whatever the cookies hold and ready or not.
C1_SignOutPrecedence ==
    (ev.op = "Bootstrap" /\ ev.pre.pending /\ NoFallback)
        => (ev.calls = 0 /\ get_auth_state(session_state, SUPABASE_USER_ID) = NoAuth)

\* C1 happens: the flag was set, the cookie manager was not ready, and the
\* request carried a persistent cookie whose token the provider accepts
C1_Witness ==
    /\ ev.op = "Bootstrap" /\ ev.pre.pending /\ NoFallback /\ ~cmReady
    /\ read_persistent_refresh_token(ctxCookie, COOKIES_PASSWORD) \in ev.pre.valid

\* C2: a failed refresh attempt records its time t in the backoff marker;
\* a Bootstrap that finds the marker t, has a refresh token and no in-memory
\* AuthState issues no refresh_session call while now - t < 30 and exactly
\* one once now - t >= 30.
C2_Backoff ==
    /\ (ev.op = "Bootstrap" /\ ev.outcome = "error")
          => session_state.auth_refresh_failure_ts = ev.pre.now
    /\ (ev.op = "Bootstrap" /\ ev.pre.ts # NoTs /\ Truthy(ev.token) /\ ~Holds(ev.pre.keys))
          => /\ (ev.pre.now - ev.pre.ts < 30) => ev.calls = 0
             /\ (ev.pre.now - ev.pre.ts >= 30) => ev.calls = 1

\* C2 happens: the marker was 30 seconds old and the refresh was attempted
C2_Witness ==
    /\ ev.op = "Bootstrap" /\ ev.pre.ts # NoTs /\ Truthy(ev.token) /\ ~Holds(ev.pre.keys)
    /\ ev.pre.now - ev.pre.ts = 30 /\ ev.calls = 1

\* C3: when refresh_session returns a rotated refresh token, the cookies
\* hold the new token when Bootstrap completes (the persistent cookie, once
\* written, decrypts to it under the cookie password), so a restore reads the
\* new token; and a Bootstrap that presents a token the provider no longer
\* accepts does not authenticate.
C3_RotationPersisted ==
    /\ (ev.op = "Bootstrap" /\ ev.outcome = "rotated")
          => /\ StoredToken(docCookie, cmCookie) = Tokens[issued]
             /\ docCookie # ev.pre.doc
                   => decrypt_value(COOKIES_PASSWORD, unquote(docCookie)) = Tokens[issued]
    /\ (ev.op = "Bootstrap" /\ ev.calls = 1 /\ ev.token \notin ev.pre.valid)
          => get_auth_state(session_state, SUPABASE_USER_ID) = NoAuth

\* C3 happens: the token was rotated and the persistent cookie rewritten
C3_Witness ==
    /\ ev.op = "Bootstrap" /\ ev.outcome = "rotated"
    /\ docCookie # ev.pre.doc /\ ev.token \notin validRT /\ Tokens[issued] \in validRT

\* C4: when the provider call of the refresh raises, the cookies are left as
\* they were, no cookie write or clear is issued, the backoff marker and the
\* warning are recorded and the execution ends unauthenticated.
C4_FailureKeepsToken ==
    (ev.op = "Bootstrap" /\ ev.outcome = "error")
        => /\ docCookie = ev.pre.doc /\ cmCookie = ev.pre.cm /\ ev.writes = 0
           /\ session_state.auth_refresh_failure_ts = ev.pre.now
           /\ session_state.auth_warning
           /\ get_auth_state(session_state, SUPABASE_USER_ID) = NoAuth

\* C4 happens: the refresh of a token the provider accepts failed
C4_Witness ==
    /\ ev.op = "Bootstrap" /\ ev.outcome = "error" /\ ev.token \in validRT
    /\ Truthy(docCookie) /\ Truthy(cmCookie)

\* C5: when the provider returns a session with the refresh token presented,
\* get_auth_state() is the AuthState of that session and no cookie is written.
C5_UnchangedTokenNoRewrite ==
    (ev.op = "Bootstrap" /\ ev.outcome = "same")
        => /\ get_auth_state(session_state, SUPABASE_USER_ID) = _session_to_auth_state(Session(ev.token))
           /\ ev.writes = 0 /\ docCookie = ev.pre.doc /\ cmCookie = ev.pre.cm

\* C5 happens: Session State was empty, a marker older than the window was
\* there, and the refresh returned the presented token
C5_Witness ==
    /\ ev.op = "Bootstrap" /\ ev.outcome = "same" /\ ~Holds(ev.pre.keys)
    /\ ev.pre.ts # NoTs /\ Truthy(docCookie)

\* No refresh token can be read from the cookies of the execution
NoTokenReadable ==
    ~Truthy(resolve_refresh_token(FALSE, read_persistent_refresh_token(ctxCookie, COOKIES_PASSWORD),
                                  ev.pre.cm, cmReady))

\* C6 as stated: with no refresh token readable and no fallback identity,
\* Bootstrap issues no provider call and ends with get_auth_state() absent.
C6_Original ==
    (ev.op = "Bootstrap" /\ NoTokenReadable /\ NoFallback)
        => (ev.calls = 0 /\ get_auth_state(session_state, SUPABASE_USER_ID) = NoAuth)

\* C6 amended: the same, for a Bootstrap that starts with Session State
\* holding no AuthState.
C6_NoCookieUnauthenticated ==
    (ev.op = "Bootstrap" /\ NoTokenReadable /\ NoFallback /\ ~Holds(ev.pre.keys))
        => (ev.calls = 0 /\ get_auth_state(session_state, SUPABASE_USER_ID) = NoAuth)

\* C6 happens: a ready cookie manager, no cookie, an empty session
C6_Witness ==
    /\ ev.op = "Bootstrap" /\ NoTokenReadable /\ NoFallback /\ ~Holds(ev.pre.keys)
    /\ cmReady /\ ~ev.pre.pending

\* C7 as stated: a Bootstrap that starts with an AuthState in Session State
\* issues no provider call and leaves that AuthState in place.
C7_Original ==
    (ev.op = "Bootstrap" /\ Holds(ev.pre.keys))
        => (ev.calls = 0 /\ AuthKeys(session_state) = ev.pre.keys)

\* C7 amended: the same, for a Bootstrap that starts without the
\* sign-out-pending flag; with the flag set the AuthState is cleared.
C7_InMemoryTerminal ==
    /\ (ev.op = "Bootstrap" /\ Holds(ev.pre.keys) /\ ~ev.pre.pending)
          => (ev.calls = 0 /\ AuthKeys(session_state) = ev.pre.keys)
    /\ (ev.op = "Bootstrap" /\ Holds(ev.pre.keys) /\ ev.pre.pending)
          => (ev.calls = 0 /\ ~Holds(AuthKeys(session_state)))

\* C7 happens: an authenticated session with a readable, accepted token
C7_Witness ==
    /\ ev.op = "Bootstrap" /\ Holds(ev.pre.keys) /\ ~ev.pre.pending
    /\ ev.token \in validRT /\ ev.pre.ts = NoTs

\* C8: once the recovery exchange has succeeded in a session, no later
\* execution of the reset page in that session invokes the exchange.
C8_ExchangeOnce ==
    (ev.op = "ResetPage" /\ ev.pre.done) => ev.exchanges = 0

\* C8 happens: the exchange had succeeded, the session is unauthenticated
\* again and the reset page runs with the cached tokens
C8_Witness ==
    /\ ev.op = "ResetPage" /\ ev.pre.done /\ ~Holds(ev.pre.keys) /\ NoFallback
    /\ session_state.recovery_tokens # NoTokens

\* The sign-out actions of render_auth_sidebar applied to the current state
SignedOutOnce == sign_out_clicked(session_state, docCookie, cmCookie, streamlit_js_eval)

SignedOutTwice == sign_out_clicked(SignedOutOnce.ss, SignedOutOnce.doc, SignedOutOnce.cm, streamlit_js_eval)

\* The AuthStates set_auth_state is applied with
SomeAuthStates ==
    {AuthState(UserId, a, r, e) : a \in {None, <<>>, AccessToken}, r \in {None, Tokens[1]}, e \in {None, Email}}

\* C9: performing the sign-out actions twice leaves what performing them
\* once leaves: Session State empty and, the cookie manager being ready so
\* that its entry is cleared, no refresh token in the cookies; the Bootstrap
\* that repeats them after a sign-out leaves the same; and set_auth_state
\* applied twice with the same arguments equals applying it once.
C9_SignOutIdempotent ==
    /\ LET once == SignedOutOnce
           twice == SignedOutTwice
       IN  /\ twice.ss = once.ss
           /\ twice.doc = once.doc /\ twice.cm = once.cm
           /\ AuthKeys(once.ss) = AuthKeys(EmptySession)
           /\ session_state.cookies = "ready" => ~Truthy(StoredToken(once.doc, once.cm))
    /\ ev.op = "SignOut" => AuthKeys(session_state) = AuthKeys(EmptySession)
    /\ (ev.op = "SignOut" /\ session_state.cookies = "ready") => ~Truthy(StoredToken(docCookie, cmCookie))
    /\ (ev.op = "Bootstrap" /\ ev.pre.pending)
          => /\ AuthKeys(session_state) = AuthKeys(EmptySession)
             /\ cmReady => ~Truthy(StoredToken(docCookie, cmCookie))
    /\ \A a \in SomeAuthStates :
          LET once == set_auth_state(session_state, a.user_id, a.access_token, a.refresh_token, a.email)
          IN  set_auth_state(once, a.user_id, a.access_token, a.refresh_token, a.email) = once

\* C9 happens: a sign-out with a ready cookie manager cleared both cookies
\* of their token, and the next Bootstrap repeated the sign-out actions
C9_Witness ==
    /\ ev.op = "Bootstrap" /\ ev.pre.pending /\ cmReady /\ ev.writes = 2
    /\ ev.pre.cm = <<>> /\ ev.pre.doc = None /\ Truthy(ctxCookie)

\* C10 as stated: for every non-empty password P and plaintext T the round
\* trip returns exactly T.
C10_Original ==
    cipher.pc \in {"raised", "done"} => (cipher.pc = "done" /\ cipher.out = cipher.value)

\* C10 amended: for a password with a non-whitespace character the round
\* trip returns T stripped of surrounding whitespace, absent when nothing is
\* left, hence exactly T for a non-empty T without surrounding whitespace;
\* for a whitespace-only password encrypt_value raises.
C10_RoundTripStripped ==
    /\ cipher.pc = "raised" <=> (cipher.pc \notin {"idle", "start"} /\ Strip(cipher.password) = <<>>)
    /\ cipher.pc = "done"
          => /\ cipher.out = OrNone(Strip(cipher.value))
             /\ (cipher.value # <<>> /\ Strip(cipher.value) = cipher.value) => cipher.out = cipher.value

\* C10 happens: a plaintext with leading whitespace went through the round trip
C10_Witness ==
    cipher.pc = "done" /\ cipher.value = <<" ", "a">> /\ cipher.out = <<"a">>

\* The token encrypt_value returned in the round trip under way
SentToken == encrypt_value(cipher.password, cipher.value)

\* C11 as stated: decrypt_value never raises and returns None for a token that
\* is not the one encrypt_value returned and for every password other than
\* the one used to encrypt, the empty one and those that differ by
\* surrounding whitespace included.
C11_Original ==
    cipher.pc = "done"
        => /\ cipher.out # Raise
           /\ (Strip(cipher.token) # SentToken \/ cipher.other # cipher.password) => cipher.out = None

\* C11 amended: decrypt_value never raises and returns None for a token that
\* is not the one encrypt_value returned, for an empty or whitespace-only
\* password and for every password that differs from the encrypting one by
\* more than surrounding whitespace.
C11_FailClosed ==
    cipher.pc = "done"
        => /\ cipher.out # Raise
           /\ (Strip(cipher.token) # SentToken \/ Strip(cipher.other) # Strip(cipher.password))
                 => cipher.out = None

\* C11 happens: the untouched token of plaintext "a" under password "a" was
\* presented with the password "b" and decrypt_value returned None
C11_Witness ==
    /\ cipher.pc = "done" /\ cipher.out = None /\ cipher.password = <<"a">> /\ cipher.value = <<"a">>
    /\ cipher.token = SentToken /\ cipher.other = <<"b">>

\* C12 as stated: a Bootstrap that runs while the cookie manager is not ready
\* issues no refresh_session call and records no backoff marker.
C12_Original ==
    (ev.op = "Bootstrap" /\ ~cmReady)
        => (ev.calls = 0 /\ session_state.auth_refresh_failure_ts = ev.pre.ts)

\* C13 as stated: update_password, given an empty password or one shorter
\* than 8 characters, raises without calling set_session or update_user.
C13_Original ==
    (form.pc = "called" /\ Len(form.new_password) < 8)
        => (form.raised # "none" /\ form.set_session = 0 /\ form.update_user = 0)

\* C13 amended: update_password raises for an empty password before any
\* provider call; the reset page's form turns away an empty password and one
\* shorter than 8 characters without invoking update_password, so neither
\* set_session nor update_user is called for such a password.
C13_ShortPasswordRejected ==
    /\ (form.pc = "called" /\ form.new_password = <<>>)
          => (form.raised = "ValueError" /\ form.set_session = 0 /\ form.update_user = 0)
    /\ (form.pc = "submitted" /\ Len(form.new_password) < 8)
          => /\ ~form.invoked /\ form.set_session = 0 /\ form.update_user = 0
             /\ form.shown \in {"enter", "mismatch", "short"}

\* C13 happens: a password of 7 characters, confirmed, was submitted and
\* turned away as too short
C13_Witness ==
    /\ form.pc = "submitted" /\ Len(form.new_password) = 7 /\ form.confirm = form.new_password
    /\ form.shown = "short" /\ ~form.invoked

\* C14 as stated: a new password that is non-empty, equal to its confirmation
\* and at least 8 characters long, submitted on the reset page, invokes
\* update_password with the session's access token, its refresh token and the
\* new password, and update_user is called exactly once unless set_session
\* failed; a failure of the provider is shown to the user.
C14_Original ==
    (form.pc = "submitted" /\ form.new_password = form.confirm /\ Len(form.new_password) >= 8)
        => /\ form.invoked
           /\ form.args = <<OrEmpty(form.auth.access_token), OrEmpty(form.auth.refresh_token), form.new_password>>
           /\ form.outcome # "session_error" => form.update_user = 1
           /\ form.raised = "provider" <=> form.outcome # "ok"
           /\ form.shown = (IF form.outcome = "ok" THEN "updated" ELSE "could_not_update")

\* C15 as stated: a protected page executed by a session without AuthState
\* (no identity in Session State, no fallback identity) runs none of its
\* protected logic and raises no error: it leaves for the login page, shows
\* the inline form, or stops while the cookie manager is not ready.
C15_Original ==
    (ev.op = "PageRender" /\ ev.page \in ProtectedPages /\ ~Holds(ev.pre.keys) /\ NoFallback)
        => ev.result \in {"login", "inline", "stop"}

\* C19 as stated: require_auth returns an AuthState, letting the page behind
\* it run, only when Session State holds an identity; the fallback identity of
\* the environment or the secrets does not pass the gate.
C19_Original ==
    (ev.op = "PageRender" /\ ev.page \in {"Timeline", "Profile"} /\ ~Holds(ev.pre.keys))
        => ev.result # "protected"

\* The tabs that called refresh_session
Callers == {i \in TabIds : tabs[i].pc \in {"responded", "done"}}

\* The refresh tokens the provider issued to the tabs
Won == {Tokens[tabs[i].n + 1] : i \in {j \in Callers : tabs[j].outcome = "rotated"}}

\* C16: of the tabs that call refresh_session with the same refresh token
\* read from the shared cookies, at most one obtains a session; a tab whose
\* call failed ends with the backoff marker and the warning recorded and
\* without AuthState; and the cookies are never cleared: the cookie-manager
\* entry and the persistent cookie each hold the original token or the token
\* issued to the winner.
C16_TabsRace ==
    (\A i, j \in Callers : tabs[i].token = tabs[j].token)
        => /\ Cardinality({i \in Callers : tabs[i].outcome = "rotated"}) <= 1
           /\ \A i \in Callers :
                 (tabs[i].pc = "done" /\ tabs[i].outcome = "error")
                    => /\ tabs[i].ss.auth_refresh_failure_ts = now
                       /\ tabs[i].ss.auth_warning
                       /\ get_auth_state(tabs[i].ss, SUPABASE_USER_ID) = NoAuth
           /\ cmCookie \in {PrevToken} \cup Won
           /\ docCookie # None
                 => decrypt_value(COOKIES_PASSWORD, unquote(docCookie)) \in {PrevToken} \cup Won

\* C16 happens: two tabs read the same token; the first was issued a new one
\* and wrote it to the cookies, the second was refused and finished
C16_Witness ==
    /\ tabs[1].pc = "done" /\ tabs[2].pc = "done" /\ tabs[1].token = tabs[2].token
    /\ tabs[1].outcome = "rotated" /\ tabs[2].outcome = "error"
    /\ tabs[2].ss.auth_refresh_failure_ts = now
    /\ cmCookie = Tokens[1] /\ docCookie # None

\* main() run once more from the state a Bootstrap left: the same session,
\* cookies, readiness and clock
RunAgain ==
    main(session_state, docCookie, ctxCookie, cmCookie, cmReady, streamlit_js_eval,
         COOKIES_PASSWORD, SUPABASE_USER_ID, "error", issued, now)

\* C17 as stated: a Bootstrap run again right after a Bootstrap, nothing
\* having changed in between, issues no refresh_session call and leaves
\* Session State (marker and sign-out-pending flag included) and the cookies
\* as the first run left them.
C17_Original ==
    ev.op = "Bootstrap"
        => /\ RunAgain.calls = 0
           /\ RunAgain.ss = session_state
           /\ RunAgain.doc = docCookie
           /\ RunAgain.cm = cmCookie

\* C18 as stated: with the cookie password missing or blank, a sign-in on the
\* login page or a rotation in Bootstrap, each of which has a refresh token
\* to persist, ends in an error; the execution does not go on to the
\* application or to a re-run as if the token had been persisted.
C18_Original ==
    (/\ Strip(COOKIES_PASSWORD) = <<>>
     /\ \/ ev.op = "LoginPage" /\ ev.outcome = "ok"
        \/ ev.op = "Bootstrap" /\ ev.outcome = "rotated")
        => (ev.result \notin {"timeline", "rerun"} /\ ~ev.rerun)

\* The user ids a provider session or a caller of set_auth_state may carry:
\* none, empty, blank, padded and plain
SomeUserIds == {None, <<>>, <<" ">>, <<" ", "u">>, UserId}

\* C20: whatever Session State has become, and whichever user id is then
\* stored by set_auth_state, returned by the provider in a session or
\* obtained by a recovery exchange, get_auth_state, auth_state_from_session
\* and exchange_recovery_tokens_for_session yield an AuthState with a
\* non-empty user_id, or none (absent, or an error raised).
C20_UserIdNonEmpty ==
    /\ LET a == get_auth_state(session_state, SUPABASE_USER_ID)
       IN  a = NoAuth \/ (Truthy(a.user_id) /\ a.user_id # Raise)
    /\ LET a == get_auth_state(clear_auth_state(session_state), SUPABASE_USER_ID)
       IN  a = NoAuth \/ Truthy(a.user_id)
    /\ \A uid \in SomeUserIds :
          LET stored  == get_auth_state(set_auth_state(session_state, uid, AccessToken, Tokens[1], Email),
                                        SUPABASE_USER_ID)
              session == _session_to_auth_state([Session(Tokens[1]) EXCEPT !.user_id = uid])
          IN  /\ stored = NoAuth \/ Truthy(stored.user_id)
              /\ session = RaisedAuth \/ Truthy(session.user_id)
    /\ \A outcome \in {"ok", "error"} :
          LET x == exchange_recovery_tokens_for_session(session_state, RecoveryAccess, RecoveryRefresh, outcome)
              a == get_auth_state(x.ss, SUPABASE_USER_ID)
          IN  x.raised \/ Truthy(a.user_id)

\* C20 happens: a refresh has stored the provider's user id, get_auth_state
\* returns it, and no fallback identity is configured
C20_Witness ==
    /\ ev.op = "Bootstrap" /\ ev.outcome = "same" /\ NoFallback
    /\ get_auth_state(session_state, SUPABASE_USER_ID).user_id = UserId
    /\ get_auth_state(set_auth_state(session_state, <<" ">>, AccessToken, Tokens[1], Email), SUPABASE_USER_ID) = NoAuth

\* C21 as stated: a Bootstrap that starts with the sign-out-pending flag set
\* ends with the flag cleared and the AuthState keys of Session State
\* cleared, the cookie manager ready or not.
C21_Original ==
    (ev.op = "Bootstrap" /\ ev.pre.pending)
        => (~session_state.auth_signout_pending /\ AuthKeys(session_state) = AuthKeys(EmptySession))

\* C21 amended: a Bootstrap that starts with the flag set ends with the
\* AuthState keys cleared; with the cookie manager ready the flag is cleared
\* and the cookie-manager entry emptied, with the manager not ready the flag
\* stays set and the entry is left as it was, for a later execution to clear.
C21_SignOutPendingCleanup ==
    (ev.op = "Bootstrap" /\ ev.pre.pending)
        => /\ AuthKeys(session_state) = AuthKeys(EmptySession)
           /\ session_state.auth_signout_pending = ~cmReady
           /\ cmCookie = (IF cmReady THEN <<>> ELSE ev.pre.cm)

\* C21 happens: the flag was set, the cookie manager was not ready and its
\* entry held a token; the flag is still set after Bootstrap
C21_Witness ==
    /\ ev.op = "Bootstrap" /\ ev.pre.pending /\ ~cmReady
    /\ Truthy(cmCookie) /\ session_state.auth_signout_pending

\* C22 as stated: after a Bootstrap whose refresh returned a session, rotated
\* or not, the cookie manager ready or not, and after a successful sign-in on
\* the login page or in require_auth's inline form, the backoff marker is
\* absent from Session State.
C22_Original ==
    (\/ ev.op = "Bootstrap" /\ ev.outcome \in {"same", "rotated"}
     \/ ev.op \in {"LoginPage", "PageRender"} /\ ev.outcome = "ok")
        => session_state.auth_refresh_failure_ts = NoTs

\* The Session State the last handler started from, as far as main() reads it
PreSession ==
    [EmptySession EXCEPT !.user_id = ev.pre.keys[1], !.supabase_access_token = ev.pre.keys[2],
                         !.supabase_refresh_token = ev.pre.keys[3], !.user_email = ev.pre.keys[4],
                         !.auth_signout_pending = ev.pre.pending,
                         !.auth_refresh_failure_ts = ev.pre.ts]

\* The steps the Bootstrap that has just run went through
BootstrapSteps ==
    main_steps(PreSession, ctxCookie, ev.pre.cm, cmReady, COOKIES_PASSWORD, SUPABASE_USER_ID, ev.pre.now)

C24_Original ==
    (ev.op = "Bootstrap" /\ ev.outcome \in {"same", "rotated"}) => ev.rerun

\* C24 amended: a Bootstrap whose refresh returned a session ends in
\* st.rerun() exactly when the refresh token was rotated and the cookie
\* manager is ready; otherwise the same execution goes on to the sidebar and
\* the page; either way Session State holds the AuthState.
C24_RerunOnRotation ==
    (ev.op = "Bootstrap" /\ ev.outcome \in {"same", "rotated"})
        => /\ ev.rerun <=> (ev.outcome = "rotated" /\ cmReady)
           /\ phase = (IF ev.rerun THEN "boot" ELSE "run")
           /\ Holds(AuthKeys(session_state))

\* C24 happens: the provider returned the token presented, and the execution
\* went on to the page with the AuthState set
C24_Witness ==
    /\ ev.op = "Bootstrap" /\ ev.outcome = "same" /\ ~ev.rerun /\ phase = "run"
    /\ Holds(AuthKeys(session_state))

\* C25 as stated: a Bootstrap that has a refresh token and no AuthState and
\* skips the refresh because the backoff marker is less than 30 seconds old
\* ends without AuthState and with the warning in Session State for the
\* sign-in surface to show.
C25_Original ==
    (/\ ev.op = "Bootstrap" /\ ev.calls = 0 /\ Truthy(ev.token)
     /\ ~Holds(ev.pre.keys) /\ NoFallback
     /\ ev.pre.ts # NoTs /\ ev.pre.now - ev.pre.ts < 30)
        => /\ get_auth_state(session_state, SUPABASE_USER_ID) = NoAuth
           /\ session_state.auth_warning

\* C26 as stated: once a sign-out has cleared the browser's cookies in a
\* session (the cookie-manager entry emptied, the persistent cookie deleted)
\* and nobody has signed in since (the provider has issued no token besides
\* the one this very Bootstrap may be given), a Bootstrap of that session
\* obtains no session from the provider.
C26_Original ==
    (/\ ev.op = "Bootstrap" /\ ev.pre.cm = <<>> /\ ev.pre.doc = None
     /\ issued = (IF ev.outcome = "rotated" THEN 1 ELSE 0))
        => ev.outcome \notin {"same", "rotated"}

\* The Bootstrap of the execution that follows a sign-in which left the
\* session ss and the cookie-manager entry cm
BootstrapAfter(ss, cm) ==
    main(ss, docCookie, ctxCookie, cm, cmReady, streamlit_js_eval,
         COOKIES_PASSWORD, SUPABASE_USER_ID, "error", issued, now)

\* The sign-ins the inline form of require_auth can make in the current state
InlineSignIns ==
    {r \in {page_main(x[1], session_state, cmCookie, SUPABASE_USER_ID, x[2].switch_ok,
                      x[2].submitted, x[2].outcome, issued)
               : x \in ProtectedPages \X GateInputs(issued)} : r.signed_in}

\* C27: after a successful sign-in, through the login page's form or through
\* the inline form of require_auth, the sign-out-pending flag is absent and the
\* Bootstrap of the next execution calls nobody and leaves the AuthState the
\* sign-in stored in place.
C27_SignInClearsFlag ==
    /\ (ev.op = "LoginPage" /\ ev.outcome = "ok")
          => LET next == BootstrapAfter(session_state, cmCookie)
             IN  /\ ~session_state.auth_signout_pending
                 /\ Holds(AuthKeys(session_state))
                 /\ next.calls = 0
                 /\ AuthKeys(next.ss) = AuthKeys(session_state)
    /\ phase = "run"
          => \A r \in InlineSignIns :
                LET next == BootstrapAfter(r.ss, r.cm)
                IN  /\ ~r.ss.auth_signout_pending
                    /\ Holds(AuthKeys(r.ss))
                    /\ next.calls = 0
                    /\ AuthKeys(next.ss) = AuthKeys(r.ss)

\* C27 happens: the login page signs a user in whose session still carried the
\* flag of an earlier sign-out
C27_Witness ==
    /\ ev.op = "LoginPage" /\ ev.outcome = "ok" /\ ev.pre.pending
    /\ ~session_state.auth_signout_pending /\ Holds(AuthKeys(session_state))

\* C28 as stated: a Bootstrap whose refresh_session call establishes no
\* session, because the call raised or because its response carries no
\* session, ends with the backoff marker recorded and the warning set, and a
\* Bootstrap run again at once does not call the provider.
C28_Original ==
    (ev.op = "Bootstrap" /\ ev.calls = 1 /\ ev.outcome \in {"error", "nosession"})
        => /\ session_state.auth_refresh_failure_ts # NoTs
           /\ session_state.auth_warning
           /\ BootstrapAfter(session_state, cmCookie).calls = 0

\* C29 as stated: the login page never navigates to Timeline in the very
\* execution that signed the user in; the write of the persistent cookie is
\* attempted in a later execution first, so a successful sign-in ends in a rerun
\* (or in the exception of the cookie-manager write), and whenever the login
\* page has navigated both pending_persistent_rt and persistent_rt_written are
\* absent.
C29_Original ==
    /\ (ev.op = "LoginPage" /\ ev.outcome = "ok") => ev.result # "timeline"
    /\ (ev.op = "LoginPage" /\ ev.result = "timeline")
          => (session_state.pending_persistent_rt = None /\ ~session_state.persistent_rt_written)

\* C30 as stated, in the configuration where both stores can be written (an
\* encryption password is set, streamlit_js_eval is installed, the cookie
\* manager is ready): after a sign-out, a rotation in Bootstrap, a login-page
\* sign-in that has reached Timeline or a sign-in through the inline form of
\* require_auth, the token the persistent cookie decrypts to and the
\* cookie-manager entry are both cleared or both equal to the refresh token
\* issued last.
C30_Original ==
    LET persistent == read_persistent_refresh_token(docCookie, COOKIES_PASSWORD)
        latest == IF issued = 0 THEN PrevToken ELSE Tokens[issued]
    IN  (/\ Strip(COOKIES_PASSWORD) # <<>> /\ streamlit_js_eval /\ cmReady
         /\ \/ ev.op = "SignOut"
            \/ ev.op = "Bootstrap" /\ ev.outcome = "rotated"
            \/ ev.op = "LoginPage" /\ ev.result = "timeline"
            \/ ev.op = "PageRender" /\ ev.outcome = "ok")
            => \/ ~Truthy(persistent) /\ ~Truthy(cmCookie)
               \/ persistent = latest /\ cmCookie = latest

====
